---- MODULE Spec2Model ----
(***************************************************************************)
(* Model of src/services/ZenExtension.ts: the activation singleton of the  *)
(* ZenML extension.  The state is the static fields of ZenExtension plus   *)
(* one record per asynchronous handler invocation in flight.  JavaScript   *)
(* runs each handler to its next `await` without interleaving, so every    *)
(* action below is one such synchronous segment: the delivery of an editor *)
(* event up to the handler's first await, or the settlement of the awaited *)
(* promise up to the next await (or the handler's return).                 *)
(*                                                                         *)
(* Collaborators imported by ZenExtension.ts (runServer,                   *)
(* getInterpreterDetails, initializePython, updateDefaultPythonInterpreter-*)
(* Path, updateWorkspaceInterpreterSettings, refreshUIComponents, the      *)
(* command registries, the editor API) are the environment: a call to one  *)
(* of them is recorded in the calling handler's log when it begins and     *)
(* when its promise settles.                                               *)
(***************************************************************************)
EXTENDS Integers, Sequences, FiniteSets, TLC

VARIABLES
    activatePc,             \* position inside ZenExtension.activate
    context,                \* ZenExtension.context
    lsClient,               \* ZenExtension.lsClient (and the two LSClient flags read here)
    serverId,               \* ZenExtension.serverId
    serverName,             \* ZenExtension.serverName
    outputChannel,          \* ZenExtension.outputChannel
    subscriptions,          \* handlers pushed on context.subscriptions by subscribeToCoreEvents
    tasks,                  \* handler invocations: the setImmediate callback and event handlers
    viewsAndCommandsSetup,  \* ZenExtension.viewsAndCommandsSetup
    viewDisposables,        \* ZenExtension.viewDisposables
    commandDisposables,     \* ZenExtension.commandDisposables
    setups,                 \* invocations of setupViewsAndCommands
    created,                \* per tree view id: number of createTreeView calls
    registered,             \* per command registry: number of invocations
    statusBar,              \* number of ZenMLStatusBar.getInstance() calls
    made,                   \* per disposable: the tree view id it is, or "command"
    disposed,               \* per disposable: number of dispose() calls
    deactivations,          \* number of deactivateFeatures calls
    row                     \* number of deactivateFeatures calls since any other change
                            \* to the views, commands or disposable lists

vars == << activatePc, context, lsClient, serverId, serverName, outputChannel,
           subscriptions, tasks, viewsAndCommandsSetup, viewDisposables,
           commandDisposables, setups, created, registered, statusBar,
           made, disposed, deactivations, row >>

coreVars == << activatePc, context, lsClient, serverId, serverName,
               outputChannel, subscriptions, tasks >>

viewVars == << viewsAndCommandsSetup, viewDisposables, commandDisposables,
               setups, created, registered, statusBar, made, disposed,
               deactivations, row >>

----------------------------------------------------------------------------
(* Bounds of the model *)

\* event-handler invocations (besides the setImmediate callback) in one run
MaxTasks == 2
\* calls of setupViewsAndCommands in one run
MaxSetups == 2
\* disposables other code pushes on commandDisposables in one run
MaxCommands == 2
\* calls of deactivateFeatures in one run
MaxDeactivations == 2

----------------------------------------------------------------------------
(* Values *)

Undefined == "undefined"

\* interpreter path arrays the Python extension may report
Paths == {<<"/usr/bin/python3">>, <<"/venv/bin/python", "/usr/bin/python3">>}

\* IInterpreterDetails: `path?: string[]`, absent or a non-empty array
InterpreterDetails ==
    {[hasPath |-> FALSE, path |-> << >>]} \cup {[hasPath |-> TRUE, path |-> p] : p \in Paths}

\* `if (interpreterDetails.path)`
Truthy(details) == details.hasPath

\* `interpreterDetails.path[0]`
First(path) == IF Len(path) = 0 THEN Undefined ELSE path[1]

NoDetails == [hasPath |-> FALSE, path |-> << >>]

\* serverInfo of package.json, as read by loadServerDefaults
loadServerDefaults == [name |-> "ZenML", module |-> "zenml-python"]

\* vscode.LogOutputChannel, as made by createOutputChannel(name)
NoChannel == [kind |-> Undefined, name |-> Undefined]

createOutputChannel(name) == [kind |-> "LogOutputChannel", name |-> name]

\* the arguments of a runServer call
NoServerArgs ==
    [serverId |-> Undefined, serverName |-> Undefined,
     outputChannel |-> NoChannel, lsClient |-> Undefined]

ServerArgs ==
    [serverId |-> serverId, serverName |-> serverName,
     outputChannel |-> outputChannel, lsClient |-> lsClient.ref]

\* one entry of a handler's call log
Call(op, ev, path, args) == [op |-> op, ev |-> ev, path |-> path, args |-> args]

Begin(op) == Call(op, "begin", Undefined, NoServerArgs)
End(op) == Call(op, "end", Undefined, NoServerArgs)
BeginPath(op, p) == Call(op, "begin", p, NoServerArgs)
EndPath(op, p) == Call(op, "end", p, NoServerArgs)

\* a handler invocation
Task(kind, pc, details, changed, log) ==
    [kind |-> kind, pc |-> pc, details |-> details, changed |-> changed,
     log |-> log, child |-> 0]

Count(log, op, ev) == Cardinality({i \in 1..Len(log) : log[i].op = op /\ log[i].ev = ev})

Index(log, op, ev) ==
    IF \E i \in 1..Len(log) : log[i].op = op /\ log[i].ev = ev
    THEN CHOOSE i \in 1..Len(log) :
            /\ log[i].op = op /\ log[i].ev = ev
            /\ \A j \in 1..Len(log) : (log[j].op = op /\ log[j].ev = ev) => i <= j
    ELSE 0

\* runServer calls begun and not yet settled, over all handlers
InFlight == {t \in 1..Len(tasks) : tasks[t].pc = "awaitRunServer"}

ViewIds == {"zenmlServerView", "zenmlStackView", "zenmlPipelineView", "zenmlEnvironmentView"}

\* the order Map.forEach visits dataProviders
ViewOrder == <<"zenmlServerView", "zenmlStackView", "zenmlPipelineView", "zenmlEnvironmentView">>

Registries == {"registerServerCommands", "registerStackCommands", "registerPipelineCommands"}

----------------------------------------------------------------------------
Init ==
    /\ activatePc = "start"
    /\ context = Undefined
    /\ lsClient = [ref |-> Undefined, isZenMLReady |-> FALSE,
                   interpreterSelectionInProgress |-> FALSE]
    /\ serverId = Undefined
    /\ serverName = Undefined
    /\ outputChannel = NoChannel
    /\ subscriptions = {}
    /\ tasks = << >>
    /\ viewsAndCommandsSetup = FALSE
    /\ viewDisposables = << >>
    /\ commandDisposables = << >>
    /\ setups = << >>
    /\ created = [v \in ViewIds |-> 0]
    /\ registered = [r \in Registries |-> 0]
    /\ statusBar = 0
    /\ made = << >>
    /\ disposed = << >>
    /\ deactivations = 0
    /\ row = 0

----------------------------------------------------------------------------
(* ZenExtension.activate, statement by statement.  activate has no await:  *)
(* its four steps run in one turn of the event loop, so no handler runs    *)
(* until activatePc = "done".                                              *)

\* lines 81-85: context, lsClient, serverName and serverId are stored
activate ==
    /\ activatePc = "start"
    /\ context' = "ExtensionContext"
    /\ lsClient' = [lsClient EXCEPT !.ref = "LSClient"]
    /\ serverName' = loadServerDefaults.name
    /\ serverId' = loadServerDefaults.module
    /\ activatePc' = "setupLoggingAndTrace"
    /\ UNCHANGED << outputChannel, subscriptions, tasks >>
    /\ UNCHANGED viewVars

\* the subscriptions pushed by setupLoggingAndTrace
LoggingSubscriptions ==
    {<<"disposable", "outputChannel">>, <<"disposable", "registerLogger">>,
     <<"event", "outputChannel.onDidChangeLogLevel">>,
     <<"event", "env.onDidChangeLogLevel">>}

\* a variant that registers the logging subscriptions but never stores the channel
setupLoggingAndTraceNoChannel ==
    /\ activatePc = "setupLoggingAndTrace"
    /\ subscriptions' = subscriptions \cup LoggingSubscriptions
    /\ activatePc' = "subscribeToCoreEvents"
    /\ UNCHANGED << context, lsClient, serverId, serverName, outputChannel, tasks >>
    /\ UNCHANGED viewVars

setupLoggingAndTrace ==
    /\ activatePc = "setupLoggingAndTrace"
    /\ outputChannel' = createOutputChannel(serverName)
    /\ subscriptions' = subscriptions \cup LoggingSubscriptions
    /\ activatePc' = "subscribeToCoreEvents"
    /\ UNCHANGED << context, lsClient, serverId, serverName, tasks >>
    /\ UNCHANGED viewVars

\* the command id `${serverId}.<name>`
CommandId(id, name) == <<"command", id, name>>

\* the subscriptions pushed by subscribeToCoreEvents
CoreSubscriptions(id) ==
    {<<"event", "onDidChangePythonInterpreter">>,
     CommandId(id, "showLogs"),
     <<"event", "onDidChangeConfiguration">>,
     CommandId(id, "restart"),
     CommandId("zenml", "promptForInterpreter"),
     <<"item", "registerLanguageStatusItem">>}

subscribeToCoreEvents ==
    /\ activatePc = "subscribeToCoreEvents"
    /\ subscriptions' = subscriptions \cup CoreSubscriptions(serverId)
    /\ activatePc' = "deferredInitialize"
    /\ UNCHANGED << context, lsClient, serverId, serverName, outputChannel, tasks >>
    /\ UNCHANGED viewVars

\* line 96: setImmediate queues the callback; it runs on a later turn
deferredInitialize ==
    /\ activatePc = "deferredInitialize"
    /\ tasks' = Append(tasks, Task("deferred", "setImmediate", NoDetails, FALSE, << >>))
    /\ activatePc' = "done"
    /\ UNCHANGED << context, lsClient, serverId, serverName, outputChannel, subscriptions >>
    /\ UNCHANGED viewVars

----------------------------------------------------------------------------
(* Handler invocations *)

\* a handler may be invoked: activate has returned and bounded room is left
CanInvoke == activatePc = "done" /\ Len(tasks) < MaxTasks + 1

New == Len(tasks) + 1

\* store a handler's record, a new one at index New
Put(t, task) ==
    tasks' = IF t = Len(tasks) + 1 THEN Append(tasks, task) ELSE [tasks EXCEPT ![t] = task]

\* a variant that serializes restarts: the call waits while another is in progress
callRunServerSerialized(task) ==
    IF InFlight = {}
    THEN [task EXCEPT !.pc = "awaitRunServer",
                      !.log = Append(@, Call("runServer", "begin", Undefined, ServerArgs))]
    ELSE [task EXCEPT !.pc = "waitForRunServer"]

\* `await runServer(this.serverId, this.serverName, this.outputChannel, this.lsClient)`:
\* the call begins at once, whatever other calls are in progress
callRunServer(task) ==
    [task EXCEPT !.pc = "awaitRunServer",
                 !.log = Append(@, Call("runServer", "begin", Undefined, ServerArgs))]

\* updateGlobalSettings(pythonPath) up to its first await (line 117)
updateGlobalSettings(task, pythonPath) ==
    [task EXCEPT !.pc = "awaitUpdateDefault",
                 !.log = @ \o << BeginPath("updateGlobalSettings", pythonPath),
                                 BeginPath("updateDefaultPythonInterpreterPath", pythonPath) >>]

\* line 117 settles, line 118 begins
updateGlobalSettingsNext(task, pythonPath) ==
    [task EXCEPT !.pc = "awaitUpdateWorkspace",
                 !.log = @ \o << EndPath("updateDefaultPythonInterpreterPath", pythonPath),
                                 BeginPath("updateWorkspaceInterpreterSettings", pythonPath) >>]

\* a variant in which line 118 is not awaited: updateGlobalSettings returns
\* while updateWorkspaceInterpreterSettings is still running
updateGlobalSettingsEndNoAwait(task, pythonPath) ==
    [task EXCEPT !.log = @ \o << EndPath("updateGlobalSettings", pythonPath) >>]

\* line 118 settles and updateGlobalSettings returns
updateGlobalSettingsEnd(task, pythonPath) ==
    [task EXCEPT !.log = @ \o << EndPath("updateWorkspaceInterpreterSettings", pythonPath),
                                 EndPath("updateGlobalSettings", pythonPath) >>]

\* lines 146-152: the onDidChangePythonInterpreter handler, to its first await
onDidChangePythonInterpreterHandler(details) ==
    LET task == Task("interpreter", "done", details, FALSE, << >>)
    IN  IF Truthy(details)
        THEN updateGlobalSettings(task, First(details.path))
        ELSE task

\* a variant that restarts on every configuration change, relevant or not
onDidChangeConfigurationHandlerUnchecked(changed) ==
    callRunServer(Task("configuration", "done", NoDetails, changed, << >>))

\* lines 156-161: the onDidChangeConfiguration handler, to its first await;
\* changed is the value of checkIfConfigurationChanged(e, this.serverId)
onDidChangeConfigurationHandler(changed) ==
    LET task == Task("configuration", "done", NoDetails, changed, << >>)
    IN  IF changed THEN callRunServer(task) ELSE task

\* lines 162-164: the `${serverId}.restart` command handler, to its first await
restartHandler == callRunServer(Task("restart", "done", NoDetails, FALSE, << >>))

\* lines 153-155: the `${serverId}.showLogs` command handler
showLogsHandler ==
    [Task("showLogs", "done", NoDetails, FALSE, << >>) EXCEPT
        !.log = << Begin("outputChannel.show"), End("outputChannel.show") >>]

OnDidChangePythonInterpreter(details) ==
    /\ CanInvoke
    /\ <<"event", "onDidChangePythonInterpreter">> \in subscriptions
    /\ Put(New, onDidChangePythonInterpreterHandler(details))
    /\ UNCHANGED << activatePc, context, lsClient, serverId, serverName,
                    outputChannel, subscriptions >>
    /\ UNCHANGED viewVars

OnDidChangeConfiguration(changed) ==
    /\ CanInvoke
    /\ <<"event", "onDidChangeConfiguration">> \in subscriptions
    /\ Put(New, onDidChangeConfigurationHandler(changed))
    /\ UNCHANGED << activatePc, context, lsClient, serverId, serverName,
                    outputChannel, subscriptions >>
    /\ UNCHANGED viewVars

RestartCommand ==
    /\ CanInvoke
    /\ CommandId(serverId, "restart") \in subscriptions
    /\ Put(New, restartHandler)
    /\ UNCHANGED << activatePc, context, lsClient, serverId, serverName,
                    outputChannel, subscriptions >>
    /\ UNCHANGED viewVars

ShowLogsCommand ==
    /\ CanInvoke
    /\ CommandId(serverId, "showLogs") \in subscriptions
    /\ Put(New, showLogsHandler)
    /\ UNCHANGED << activatePc, context, lsClient, serverId, serverName,
                    outputChannel, subscriptions >>
    /\ UNCHANGED viewVars

\* line 117 settles in handler t
UpdateDefaultDone(t) ==
    /\ tasks[t].pc = "awaitUpdateDefault"
    /\ Put(t, updateGlobalSettingsNext(tasks[t], First(tasks[t].details.path)))
    /\ UNCHANGED << activatePc, context, lsClient, serverId, serverName,
                    outputChannel, subscriptions >>
    /\ UNCHANGED viewVars

\* line 118 settles in handler t; its caller (line 99 or 149) goes on to
\* the runServer call of line 106 or 150
UpdateWorkspaceDone(t) ==
    /\ tasks[t].pc = "awaitUpdateWorkspace"
    /\ Put(t, callRunServer(updateGlobalSettingsEnd(tasks[t], First(tasks[t].details.path))))
    /\ UNCHANGED << activatePc, context, lsClient, serverId, serverName,
                    outputChannel, subscriptions >>
    /\ UNCHANGED viewVars

\* the promise of a runServer call settles and the handler returns
RunServerDone(t) ==
    /\ tasks[t].pc = "awaitRunServer"
    /\ Put(t, [tasks[t] EXCEPT !.pc = "done", !.log = Append(@, End("runServer"))])
    /\ UNCHANGED << activatePc, context, lsClient, serverId, serverName,
                    outputChannel, subscriptions >>
    /\ UNCHANGED viewVars

----------------------------------------------------------------------------
(* The setImmediate callback of deferredInitialize, lines 96-108 *)

\* the callback starts: line 97 begins
DeferredCallback(t) ==
    /\ activatePc = "done"
    /\ tasks[t].pc = "setImmediate"
    /\ Put(t, [tasks[t] EXCEPT !.pc = "awaitGetInterpreterDetails",
                               !.log = Append(@, Begin("getInterpreterDetails"))])
    /\ UNCHANGED << activatePc, context, lsClient, serverId, serverName,
                    outputChannel, subscriptions >>
    /\ UNCHANGED viewVars

\* lines 97-104: getInterpreterDetails settles with details
deferredBranch(task, details) ==
    LET got == [task EXCEPT !.details = details,
                            !.log = Append(@, End("getInterpreterDetails"))]
    IN  IF Truthy(details)
        THEN updateGlobalSettings(got, First(details.path))
        ELSE [got EXCEPT !.pc = "awaitInitializePython",
                         !.log = Append(@, Begin("initializePython"))]

GetInterpreterDetailsDone(t, details) ==
    /\ tasks[t].pc = "awaitGetInterpreterDetails"
    /\ Put(t, deferredBranch(tasks[t], details))
    /\ UNCHANGED << activatePc, context, lsClient, serverId, serverName,
                    outputChannel, subscriptions >>
    /\ UNCHANGED viewVars

\* line 103 settles, line 106 begins
InitializePythonDone(t) ==
    /\ tasks[t].pc = "awaitInitializePython"
    /\ Put(t, callRunServer([tasks[t] EXCEPT !.log = Append(@, End("initializePython"))]))
    /\ UNCHANGED << activatePc, context, lsClient, serverId, serverName,
                    outputChannel, subscriptions >>
    /\ UNCHANGED viewVars

----------------------------------------------------------------------------
(* The zenml.promptForInterpreter command and promptForPythonInterpreter *)

\* what showInformationMessage may resolve to (undefined when dismissed)
Selections == {"Select Interpreter", "Cancel", Undefined}

\* lines 200-212: the finally block; the message it shows is logged
promptFinally(task, userCancelled) ==
    [task EXCEPT !.pc = "done",
                 !.log = Append(@, Begin(
                    IF ~lsClient.isZenMLReady /\ ~userCancelled THEN "log:still not installed"
                    ELSE IF lsClient.isZenMLReady THEN "message:installation found"
                    ELSE "message:selection cancelled"))]

\* lines 165-169 and 179-191: the command handler, to its first await
PromptForInterpreterCommand ==
    /\ CanInvoke
    /\ CommandId("zenml", "promptForInterpreter") \in subscriptions
    /\ LET task == Task("prompt", "done", NoDetails, FALSE, << >>)
       IN  IF ~lsClient.interpreterSelectionInProgress /\ ~lsClient.isZenMLReady
           THEN /\ lsClient' = [lsClient EXCEPT !.interpreterSelectionInProgress = TRUE]
                /\ Put(New, [task EXCEPT !.pc = "awaitShowInformationMessage",
                                         !.log = << Begin("showInformationMessage") >>])
           ELSE /\ Put(New, task)
                /\ UNCHANGED lsClient
    /\ UNCHANGED << activatePc, context, serverId, serverName, outputChannel, subscriptions >>
    /\ UNCHANGED viewVars

\* lines 187-199: the user answers the message
ShowInformationMessageDone(t, selected) ==
    /\ tasks[t].pc = "awaitShowInformationMessage"
    /\ LET got == [tasks[t] EXCEPT !.log = Append(@, End("showInformationMessage"))]
       IN  IF selected = "Select Interpreter"
           THEN /\ Put(t, [got EXCEPT !.pc = "awaitSetInterpreter",
                                      !.log = Append(@, Begin("python.setInterpreter"))])
                /\ UNCHANGED lsClient
           ELSE /\ Put(t, promptFinally(got, TRUE))
                /\ lsClient' = [lsClient EXCEPT !.interpreterSelectionInProgress = FALSE]
    /\ UNCHANGED << activatePc, context, serverId, serverName, outputChannel, subscriptions >>
    /\ UNCHANGED viewVars

\* lines 193-195: python.setInterpreter settles and the restart command is
\* executed: its handler (lines 162-164) is invoked as handler New
SetInterpreterDone(t) ==
    /\ tasks[t].pc = "awaitSetInterpreter"
    /\ CanInvoke
    /\ CommandId(serverId, "restart") \in subscriptions
    /\ tasks' = Append(
            [tasks EXCEPT ![t] = [@ EXCEPT
                !.pc = "awaitRestartCommand",
                !.child = New,
                !.log = @ \o << End("python.setInterpreter"), Begin("executeCommand restart") >>]],
            restartHandler)
    /\ UNCHANGED << activatePc, context, lsClient, serverId, serverName,
                    outputChannel, subscriptions >>
    /\ UNCHANGED viewVars

\* line 195 settles once the restart handler has returned; then the finally block
RestartCommandDone(t) ==
    /\ tasks[t].pc = "awaitRestartCommand"
    /\ tasks[tasks[t].child].pc = "done"
    /\ Put(t, promptFinally([tasks[t] EXCEPT !.log = Append(@, End("executeCommand restart"))],
                            FALSE))
    /\ lsClient' = [lsClient EXCEPT !.interpreterSelectionInProgress = FALSE]
    /\ UNCHANGED << activatePc, context, serverId, serverName, outputChannel, subscriptions >>
    /\ UNCHANGED viewVars

\* LSClient sets or clears isZenMLReady as the server reports on the installation
ZenMLReadyChanged(ready) ==
    /\ activatePc = "done"
    /\ lsClient.isZenMLReady # ready
    /\ lsClient' = [lsClient EXCEPT !.isZenMLReady = ready]
    /\ UNCHANGED << activatePc, context, serverId, serverName, outputChannel,
                    subscriptions, tasks >>
    /\ UNCHANGED viewVars

----------------------------------------------------------------------------
NextCore ==
    \/ activate
    \/ setupLoggingAndTrace
    \/ subscribeToCoreEvents
    \/ deferredInitialize
    \/ \E d \in InterpreterDetails : OnDidChangePythonInterpreter(d)
    \/ \E c \in BOOLEAN : OnDidChangeConfiguration(c)
    \/ RestartCommand
    \/ ShowLogsCommand
    \/ PromptForInterpreterCommand
    \/ \E ready \in BOOLEAN : ZenMLReadyChanged(ready)
    \/ \E t \in 1..Len(tasks) :
        \/ UpdateDefaultDone(t)
        \/ UpdateWorkspaceDone(t)
        \/ RunServerDone(t)
        \/ DeferredCallback(t)
        \/ \E d \in InterpreterDetails : GetInterpreterDetailsDone(t, d)
        \/ InitializePythonDone(t)
        \/ \E selected \in Selections : ShowInformationMessageDone(t, selected)
        \/ SetInterpreterDone(t)
        \/ RestartCommandDone(t)

Spec == Init /\ [][NextCore]_vars

----------------------------------------------------------------------------
(* setupViewsAndCommands and deactivateFeatures.  Disposables are numbered *)
(* in the order they are made; disposed[d] counts the dispose() calls on d.*)

\* the n disposables made next
Fresh(n) == [i \in 1..n |-> Len(disposed) + i]

Zeros(n) == [i \in 1..n |-> 0]

\* how often disposable d occurs in list
Occurrences(list, d) == Cardinality({i \in 1..Len(list) : list[i] = d})

\* lines 124-137: a call of setupViewsAndCommands, to its first await
setupViewsAndCommands ==
    /\ activatePc = "done"
    /\ Len(setups) < MaxSetups
    /\ IF viewsAndCommandsSetup
       THEN /\ setups' = Append(setups, [pc |-> "awaitRefreshOnly", first |-> FALSE])
            /\ UNCHANGED << statusBar, created, viewDisposables, made, disposed, registered >>
       ELSE /\ statusBar' = statusBar + 1
            /\ created' = [v \in ViewIds |->
                    created[v] + Cardinality({i \in 1..Len(ViewOrder) : ViewOrder[i] = v})]
            /\ viewDisposables' = viewDisposables \o Fresh(Len(ViewOrder))
            /\ made' = made \o ViewOrder
            /\ disposed' = disposed \o Zeros(Len(ViewOrder))
            /\ registered' = [r \in Registries |-> registered[r] + 1]
            /\ setups' = Append(setups, [pc |-> "awaitRefresh", first |-> TRUE])
    /\ row' = 0
    /\ UNCHANGED << viewsAndCommandsSetup, commandDisposables, deactivations >>
    /\ UNCHANGED coreVars

\* refreshUIComponents settles in call s: resolved (ok) or rejected.  A
\* rejection leaves setupViewsAndCommands by the exception, past line 138.
RefreshUIComponentsDone(s, ok) ==
    /\ setups[s].pc \in {"awaitRefresh", "awaitRefreshOnly"}
    /\ setups' = [setups EXCEPT ![s].pc = IF ok THEN "done" ELSE "failed"]
    /\ viewsAndCommandsSetup' =
            IF ok /\ setups[s].pc = "awaitRefresh" THEN TRUE ELSE viewsAndCommandsSetup
    /\ row' = 0
    /\ UNCHANGED << viewDisposables, commandDisposables, created, registered,
                    statusBar, made, disposed, deactivations >>
    /\ UNCHANGED coreVars

\* other code pushes a command it registered on the public commandDisposables
PushCommandDisposable ==
    /\ activatePc = "done"
    /\ Cardinality({d \in DOMAIN made : made[d] = "command"}) < MaxCommands
    /\ commandDisposables' = commandDisposables \o Fresh(1)
    /\ made' = Append(made, "command")
    /\ disposed' = disposed \o Zeros(1)
    /\ row' = 0
    /\ UNCHANGED << viewsAndCommandsSetup, viewDisposables, setups, created,
                    registered, statusBar, deactivations >>
    /\ UNCHANGED coreVars

\* a variant that disposes the views but forgets to clear viewDisposables
deactivateFeaturesKeepsViews ==
    /\ deactivations < MaxDeactivations
    /\ disposed' = [d \in DOMAIN disposed |->
            disposed[d] + Occurrences(commandDisposables, d) + Occurrences(viewDisposables, d)]
    /\ commandDisposables' = << >>
    /\ deactivations' = deactivations + 1
    /\ row' = row + 1
    /\ UNCHANGED << viewsAndCommandsSetup, viewDisposables, setups, created,
                    registered, statusBar, made >>
    /\ UNCHANGED coreVars

\* lines 261-268
deactivateFeatures ==
    /\ deactivations < MaxDeactivations
    /\ disposed' = [d \in DOMAIN disposed |->
            disposed[d] + Occurrences(commandDisposables, d) + Occurrences(viewDisposables, d)]
    /\ commandDisposables' = << >>
    /\ viewDisposables' = << >>
    /\ deactivations' = deactivations + 1
    /\ row' = row + 1
    /\ UNCHANGED << viewsAndCommandsSetup, setups, created, registered, statusBar, made >>
    /\ UNCHANGED coreVars

NextViews ==
    \/ activate
    \/ setupLoggingAndTrace
    \/ subscribeToCoreEvents
    \/ deferredInitialize
    \/ setupViewsAndCommands
    \/ \E s \in 1..Len(setups), ok \in BOOLEAN : RefreshUIComponentsDone(s, ok)
    \/ PushCommandDisposable
    \/ deactivateFeatures

SpecViews == Init /\ [][NextViews]_vars

----------------------------------------------------------------------------
(* Properties *)

Handlers == 1..Len(tasks)

\* runServer calls handler t has begun
Runs(t) == Count(tasks[t].log, "runServer", "begin")

\* the event handler t was invoked for is a restart trigger
IsTrigger(t) ==
    \/ tasks[t].kind = "restart"
    \/ tasks[t].kind = "configuration" /\ tasks[t].changed
    \/ tasks[t].kind = "interpreter" /\ Truthy(tasks[t].details)

EventKinds == {"restart", "configuration", "interpreter", "showLogs", "prompt"}

AtRunServer(t) ==
    \/ tasks[t].kind = "restart"
    \/ tasks[t].kind = "configuration" /\ tasks[t].changed
    \/ /\ tasks[t].kind \in {"interpreter", "deferred"}
       /\ \/ Count(tasks[t].log, "updateGlobalSettings", "end") = 1
          \/ Count(tasks[t].log, "initializePython", "end") = 1

\* C2: no coordination between restart triggers.  A handler that has got to
\* its runServer call has made it, whatever runServer calls of other
\* handlers are still in progress: it never waits for them.
C2_NoCoordination ==
    \A t \in Handlers : AtRunServer(t) => Runs(t) = 1

\* two runServer calls in progress at once, one of them the initial start
C2_Witness ==
    \E t, u \in InFlight :
        /\ t # u
        /\ tasks[t].kind = "deferred"
        /\ tasks[u].kind \in {"restart", "configuration", "interpreter"}

\* in log, the call of op with pythonPath has begun and settled before position r
CompletedBefore(log, op, pythonPath, r) ==
    \E i, j \in 1..Len(log) :
        /\ i < j /\ j < r
        /\ log[i] = BeginPath(op, pythonPath)
        /\ log[j] = EndPath(op, pythonPath)

LoadedServerArgs ==
    [serverId |-> loadServerDefaults.module,
     serverName |-> loadServerDefaults.name,
     outputChannel |-> createOutputChannel(loadServerDefaults.name),
     lsClient |-> "LSClient"]

\* C6: activate initializes in a fixed order: server name and id, then the
\* output channel, then the core event subscriptions, and only on a later
\* turn the deferred initialization; so every runServer call, from a handler
\* or from the deferred initialization, is made with serverId, serverName,
\* outputChannel and lsClient set.
C6_InitializedBeforeRunServer ==
    /\ outputChannel # NoChannel =>
            /\ serverId # Undefined /\ serverName # Undefined
            /\ lsClient.ref # Undefined /\ context # Undefined
    /\ CoreSubscriptions(serverId) \subseteq subscriptions => outputChannel # NoChannel
    /\ tasks # << >> =>
            /\ CoreSubscriptions(serverId) \subseteq subscriptions
            /\ LoggingSubscriptions \subseteq subscriptions
            /\ tasks[1].kind = "deferred"
    /\ \A t \in Handlers :
            /\ tasks[t].pc # "setImmediate" => activatePc = "done"
            /\ \A i \in 1..Len(tasks[t].log) :
                    (tasks[t].log[i].op = "runServer" /\ tasks[t].log[i].ev = "begin") =>
                        /\ tasks[t].log[i].args = LoadedServerArgs
                        /\ tasks[t].log[i].args = ServerArgs

\* the deferred initialization and a restart command have both called runServer
C6_Witness ==
    /\ \E t \in Handlers : tasks[t].kind = "deferred" /\ Runs(t) = 1
    /\ \E t \in Handlers : tasks[t].kind = "restart" /\ Runs(t) = 1

\* C3: views and commands are set up at most once: after any sequence of
\* setupViewsAndCommands calls, each of the four tree views has been created
\* at most once and each of the three registries invoked at most once.
C3_SetUpAtMostOnce ==
    /\ \A v \in ViewIds : created[v] <= 1
    /\ \A r \in Registries : registered[r] <= 1

\* the disposables on either list
Tracked == {d \in DOMAIN disposed :
                Occurrences(commandDisposables, d) + Occurrences(viewDisposables, d) > 0}

\* C4: deactivateFeatures deactivates everything it tracks.  When it returns
\* both lists are empty and every disposable that was on either list has
\* been disposed exactly once, and none other; a second call in a row
\* disposes nothing; so no disposable is ever disposed twice.
C4_DeactivatesTracked ==
    /\ [](\A d \in DOMAIN disposed : disposed[d] <= 1)
    /\ [][deactivations' = deactivations + 1 =>
            /\ commandDisposables' = << >>
            /\ viewDisposables' = << >>
            /\ DOMAIN disposed' = DOMAIN disposed
            /\ \A d \in DOMAIN disposed :
                    disposed'[d] = IF d \in Tracked THEN disposed[d] + 1 ELSE disposed[d]
            /\ row >= 1 => disposed' = disposed]_vars

\* deactivateFeatures has run twice in a row after views and a command were tracked
C4_Witness ==
    /\ row = 2
    /\ commandDisposables = << >> /\ viewDisposables = << >>
    /\ \E d \in DOMAIN made : made[d] = "command" /\ disposed[d] = 1
    /\ \E d \in DOMAIN made : made[d] = "zenmlEnvironmentView" /\ disposed[d] = 1

====
